---- MODULE Spec2Model ----
(***************************************************************************)
(* TextToSql (src/patterns/gen-ai/aws-text-to-sql/index.ts).               *)
(*                                                                         *)
(* Two parts of the construct are modelled:                                *)
(*   - the Step Functions state machine the constructor defines            *)
(*     (index.ts 645-909), run by run: one action per state of the graph;  *)
(*   - the constructor itself (index.ts 270-916, 919-1015): one action per *)
(*     block of the constructor, in source order.                          *)
(*                                                                         *)
(* The Lambda functions behind the LambdaInvoke tasks and the reviewer     *)
(* behind the feedback queue are not part of index.ts: what they return is *)
(* an input of the model, drawn from the sets named *Outputs below.        *)
(***************************************************************************)
EXTENDS Integers, Sequences, FiniteSets, TLC

VARIABLES
    pc,          \* run -> the state of the graph the run is at, or its end status
    ctx,         \* run -> the state input (JSON) of the state the run is at
    wait,        \* run -> the task token the run's gate is waiting for
    nextToken,   \* run -> the number of the next task token issued to the run
    feedbackQ,   \* run -> the messages the run has sent to the feedback queue
    outputQ,     \* run -> the messages the run has sent to the output queue
    trace,       \* run -> the states the run has entered, with what each read or returned
    resumed,     \* run -> the SendTaskSuccess calls that resumed the run
    cpc,         \* constructor: the block it is at, "done" or "threw"
    props,       \* constructor: the TextToSqlProps it was called with
    created,     \* constructor: the constructs instantiated so far
    this,        \* constructor: the fields of the TextToSql being built
    error        \* constructor: the message of the error thrown ("" if none)

wfVars == <<pc, ctx, wait, nextToken, feedbackQ, outputQ, trace, resumed>>
ctorVars == <<cpc, props, created, this, error>>
vars == <<pc, ctx, wait, nextToken, feedbackQ, outputQ, trace, resumed,
          cpc, props, created, this, error>>

----------------------------------------------------------------------------
(* Bounds of the model *)

\* the runs in flight at once in the concurrent specification
MaxRuns == 2

\* the Lambda invocations one run may make (never reached by the graph as
\* written: a run invokes at most 1 + 1 + 1 + 3 + 2 functions)
MaxCalls == 12

----------------------------------------------------------------------------
(* JSON values *)

\* a field path that does not resolve
Absent == "absent"

\* $.queryConfig.Payload.validated_sql_query and $.queryStatus.Payload.result
\* are represented by their origin: the n-th Lambda invocation of the run
\* ("call"), the reviewer ("reviewer"), or nothing ("none")
Value(by, n) == [by |-> by, call |-> n]
NoValue == Value("none", 0)
ReviewerValue == Value("reviewer", 0)

\* what $.queryConfig.Payload holds: the output of reformulate_question
\* (the first four fields) or of a GenerateQuery invocation (the last three)
NoPayload ==
    [user_question |-> Absent, question_unique_id |-> Absent,
     reformulated_user_question |-> Absent, semantic_layer_strategy |-> Absent,
     validated_sql_query |-> NoValue, sql_validation_strategy |-> Absent,
     execute_sql_strategy |-> Absent]

NoQueryConfig == [present |-> FALSE, Payload |-> NoPayload]

NoQueryStatus == [present |-> FALSE, status |-> Absent, result |-> NoValue]

\* $.iterator: "raw" is the object configure_count writes (count, index, step
\* at the top), "payload" the LambdaInvoke result (the same under Payload)
NoIterator ==
    [shape |-> "none", count |-> 0, index |-> 0, step |-> 0, continue |-> Absent]

EmptyContext ==
    [user_question |-> Absent, question_unique_id |-> Absent,
     reformulated_user_question |-> Absent, semantic_layer_strategy |-> Absent,
     queryConfig |-> NoQueryConfig, queryStatus |-> NoQueryStatus,
     iterator |-> NoIterator]

UserQuestion(r) == <<"question-1", "question-2", "question-3", "question-4">>[r]
UniqueId(r) == <<"id-1", "id-2", "id-3", "id-4">>[r]

\* the input a run is started with (spec.md 6, inbound trigger)
InitialContext(r, sls) ==
    [EmptyContext EXCEPT !.user_question = UserQuestion(r),
                         !.question_unique_id = UniqueId(r),
                         !.semantic_layer_strategy = sls]

\* a task token is opaque and unique: it is represented by the run and the
\* number of the task it was issued to
Token(r, n) == [run |-> r, task |-> n]
NoToken == Token(0, 0)

----------------------------------------------------------------------------
(* What the collaborators may return *)

\* the finite sets the inputs of a specification are drawn from
WideEnv ==
    [seeded    |-> {Absent, "human", "automatic"},
     semantic  |-> {Absent, "human", "automatic"},
     validation|-> {Absent, "human", "automatic"},
     execution |-> {Absent, "enabled", "disabled"},
     status    |-> {Absent, "QUERY_ERROR", "SUCCESS"},
     stop      |-> {FALSE, TRUE},
     edits     |-> {FALSE, TRUE}]

NarrowEnv ==
    [seeded    |-> {Absent},
     semantic  |-> {"human", "automatic"},
     validation|-> {"human"},
     execution |-> {"enabled"},
     status    |-> {"QUERY_ERROR", "SUCCESS"},
     stop      |-> {FALSE},
     edits     |-> {FALSE}]

\* reformulate_question's function: returns the question, its id, the
\* reformulated question and the strategy (spec.md 3)
ReformulateOutputs(c, env) ==
    { [NoPayload EXCEPT !.user_question = c.user_question,
                        !.question_unique_id = c.question_unique_id,
                        !.reformulated_user_question = "reformulated",
                        !.semantic_layer_strategy = s] : s \in env.semantic }

\* the query generator function, n-th invocation of the run (spec.md 3)
GenerateOutputs(n, env) ==
    { [NoPayload EXCEPT !.validated_sql_query = Value("call", n),
                        !.sql_validation_strategy = v,
                        !.execute_sql_strategy = e] :
        v \in env.validation, e \in env.execution }

\* the query executor function, n-th invocation of the run (spec.md 3)
ExecuteOutputs(n, env) ==
    { [present |-> TRUE, status |-> s, result |-> Value("call", n)] :
        s \in env.status }

\* the autocorrect function (spec.md 4.4): index + step, and
\* continue = (index < count); with stop it ends the loop early, as the
\* function of scenario C does (spec.md 8.7)
IterateOutput(it, stop) ==
    LET next == it.index + it.step
    IN  [shape |-> "payload", count |-> it.count, index |-> next,
         step |-> it.step,
         continue |-> IF next < it.count /\ ~stop THEN "true" ELSE "false"]

\* what a reviewer may attach to SendTaskSuccess: any JSON. Without edits,
\* the state input of the gate, returned as it was.
ReviewerOutputs(c, r, env) ==
    {c} \cup
    IF TRUE \in env.edits
    THEN { [EmptyContext EXCEPT
              !.user_question = uq,
              !.question_unique_id = id,
              !.reformulated_user_question = rq,
              !.queryConfig = qc,
              !.queryStatus = qs] :
            uq \in {UserQuestion(r), Absent},
            id \in {UniqueId(r), UniqueId(r + 1), Absent},
            rq \in {"reformulated", Absent},
            qc \in {NoQueryConfig} \cup
                   { [present |-> TRUE,
                      Payload |-> [NoPayload EXCEPT
                                     !.validated_sql_query = ReviewerValue,
                                     !.sql_validation_strategy = "automatic",
                                     !.execute_sql_strategy = e]] :
                       e \in env.execution },
            qs \in {NoQueryStatus,
                    [present |-> TRUE, status |-> "SUCCESS",
                     result |-> ReviewerValue]} }
    ELSE {}

----------------------------------------------------------------------------
(* The state machine: data flow of one state *)

Succeeded == "SUCCEEDED"
Failed == "FAILED"
Aborted == "ABORTED"
EndStatus == {Succeeded, Failed, Aborted}

\* program constants of configure_count
ConfiguredCount == 3
ConfiguredIndex == 0
ConfiguredStep == 1

\* a Choice rule on one string field: a path that does not resolve fails the
\* run (States.Runtime); the first matching rule is taken, else otherwise
Choice(value, literal, match, otherwise) ==
    IF value = Absent THEN Failed
    ELSE IF value = literal THEN match
    ELSE otherwise

\* inputPath of is_feedback_req_on_reformualted_question?: the state input
\* becomes $.queryConfig.Payload, which is also the state's output
InputPathOne(c) ==
    [EmptyContext EXCEPT
       !.user_question = c.queryConfig.Payload.user_question,
       !.question_unique_id = c.queryConfig.Payload.question_unique_id,
       !.reformulated_user_question =
           c.queryConfig.Payload.reformulated_user_question,
       !.semantic_layer_strategy = c.queryConfig.Payload.semantic_layer_strategy]

\* variant: the result is discarded when $.queryConfig already exists
WithQueryConfigKept(c, payload) ==
    IF c.queryConfig.present
    THEN c
    ELSE [c EXCEPT !.queryConfig = [present |-> TRUE, Payload |-> payload]]

\* resultPath '$.queryConfig' of a LambdaInvoke: the result replaces that
\* field and nothing else
WithQueryConfig(c, payload) ==
    [c EXCEPT !.queryConfig = [present |-> TRUE, Payload |-> payload]]

\* variant: the result of execute_query becomes the whole state
WithQueryStatusOnly(c, status) == [EmptyContext EXCEPT !.queryStatus = status]

\* resultPath '$.queryStatus'
WithQueryStatus(c, status) == [c EXCEPT !.queryStatus = status]

\* resultPath '$.iterator'
WithIterator(c, it) == [c EXCEPT !.iterator = it]

\* the Pass state configure_count: result {count: 3, index: 0, step: 1}
ConfigureCountResult ==
    [shape |-> "raw", count |-> ConfiguredCount, index |-> ConfiguredIndex,
     step |-> ConfiguredStep, continue |-> Absent]

\* TaskInput.fromJsonPathAt(path) is new TaskInput(InputType.TEXT,
\* JsonPath.stringAt(path)): as a field of TaskInput.fromObject it is rendered
\* as the object { type, value } whose value is what the path resolves to
fromJsonPathAt(v) == [type |-> "TEXT", value |-> v]

\* messageBody of get_feedback_on_reformulated_question
ReformulatedQuestionMessage(c, token) ==
    [state |-> "get_feedback_on_reformulated_question",
     reformualted_question |-> fromJsonPathAt(c.reformulated_user_question),
     user_question |-> fromJsonPathAt(c.user_question),
     question_unique_id |-> fromJsonPathAt(c.question_unique_id),
     generated_query |-> NoValue,
     TaskToken |-> token]

\* messageBody of get_feedback_on_generated_query_path_one / _path_two
GeneratedQueryMessage(state, c, token) ==
    [state |-> state,
     reformualted_question |-> fromJsonPathAt(c.reformulated_user_question),
     user_question |-> fromJsonPathAt(c.user_question),
     question_unique_id |-> fromJsonPathAt(c.question_unique_id),
     generated_query |-> c.queryConfig.Payload.validated_sql_query,
     TaskToken |-> token]

\* messageBody of publish_query_result
PublishMessage(c) ==
    [result |-> fromJsonPathAt(c.queryStatus.result),
     user_question |-> fromJsonPathAt(c.user_question),
     question_unique_id |-> fromJsonPathAt(c.question_unique_id)]

\* every JSON path of a message body must resolve, or the state fails
ReformulatedQuestionMessageResolves(c) ==
    /\ c.reformulated_user_question # Absent
    /\ c.user_question # Absent
    /\ c.question_unique_id # Absent

GeneratedQueryMessageResolves(c) ==
    /\ c.queryConfig.present
    /\ c.queryConfig.Payload.validated_sql_query # NoValue
    /\ c.reformulated_user_question # Absent
    /\ c.user_question # Absent
    /\ c.question_unique_id # Absent

PublishMessageResolves(c) ==
    /\ c.queryStatus.present
    /\ c.queryStatus.result # NoValue
    /\ c.user_question # Absent
    /\ c.question_unique_id # Absent

----------------------------------------------------------------------------
(* The state machine: the graph (index.ts 809-909) *)

StartAt == "reformulate_question"
AfterReformulate == "is_feedback_req_on_reformualted_question?"
AfterReformulatedQuestionFeedback == "generate_query_path_one"
AfterGenerateOne == "is_feedback_req_on_generated_query_path_one?"
AfterGenerateTwo == "is_feedback_req_on_generated_query_path_two?"
\* variant: a resumed generated-query gate returns to the generator
AfterGeneratedQueryFeedbackRegenerates == "generate_query_path_two"
AfterGeneratedQueryFeedback == "is_query_execution_req?"
\* variant: execute_query is followed by the loop, whatever the status
AfterExecuteEntersLoop == "configure_count"
AfterExecute == "is_autocorrect_required?"
AfterConfigureCount == "iterator"
\* variant: the iterator is followed by itself
AfterIteratorRepeats == "iterator"
AfterIterator == "is_count_reached"
\* variant: the back edge of the loop returns to configure_count
AfterAlternateReconfigures == "configure_count"
AfterAlternate == "iterator"

\* variant: the two branches of the first Choice exchanged
FeedbackChoiceOneSwapped(c) ==
    Choice(c.semantic_layer_strategy, "human",
           "generate_query_path_two", "get_feedback_on_reformulated_question")

\* is_feedback_req_on_reformualted_question?
FeedbackChoiceOne(c) ==
    Choice(c.semantic_layer_strategy, "human",
           "get_feedback_on_reformulated_question", "generate_query_path_two")

\* variant: path one asks for feedback through the gate of path two
FeedbackChoiceThreeToPathTwo(c) ==
    Choice(c.queryConfig.Payload.sql_validation_strategy, "human",
           "get_feedback_on_generated_query_path_two", "is_query_execution_req?")

\* is_feedback_req_on_generated_query_path_one?
FeedbackChoiceThree(c) ==
    Choice(c.queryConfig.Payload.sql_validation_strategy, "human",
           "get_feedback_on_generated_query_path_one", "is_query_execution_req?")

\* variant: the two branches of the path-two Choice exchanged
FeedbackChoiceTwoSwapped(c) ==
    Choice(c.queryConfig.Payload.sql_validation_strategy, "human",
           "is_query_execution_req?", "get_feedback_on_generated_query_path_two")

\* is_feedback_req_on_generated_query_path_two?
FeedbackChoiceTwo(c) ==
    Choice(c.queryConfig.Payload.sql_validation_strategy, "human",
           "get_feedback_on_generated_query_path_two", "is_query_execution_req?")

\* variant: the two branches of is_query_execution_req? exchanged
ExecuteQueryChoiceSwapped(c) ==
    Choice(c.queryConfig.Payload.execute_sql_strategy, "disabled",
           "execute_query", "publish_query_result")

\* is_query_execution_req?
ExecuteQueryChoice(c) ==
    Choice(c.queryConfig.Payload.execute_sql_strategy, "disabled",
           "publish_query_result", "execute_query")

\* variant: the autocorrect loop entered on every status but QUERY_ERROR
AutocorrectChoiceSwapped(c) ==
    Choice(c.queryStatus.status, "QUERY_ERROR",
           "publish_query_result", "configure_count")

\* is_autocorrect_required?
AutocorrectChoice(c) ==
    Choice(c.queryStatus.status, "QUERY_ERROR",
           "configure_count", "publish_query_result")

\* $.iterator.Payload.continue, a boolean
ContinueField(c) ==
    IF c.iterator.shape = "payload" THEN c.iterator.continue ELSE Absent

\* variant: the loop goes on through configure_count
IsCountReachedReconfigures(c) ==
    Choice(ContinueField(c), "true",
           "configure_count", "publish_query_result")

\* is_count_reached
IsCountReached(c) ==
    Choice(ContinueField(c), "true",
           "generate_alternate_query", "publish_query_result")

----------------------------------------------------------------------------
(* The state machine: one action per state *)

Goto(r, state) == pc' = [pc EXCEPT ![r] = state]
Output(r, c) == ctx' = [ctx EXCEPT ![r] = c]
\* the run enters a state: values is what a Choice read or a function returned
Enter(r, state, values) ==
    trace' = [trace EXCEPT ![r] = Append(@, [state |-> state, values |-> values])]

LambdaStates ==
    {"reformulate_question", "generate_query_path_one", "generate_query_path_two",
     "generate_alternate_query", "execute_query", "iterator"}

\* the entries of the trace that are in the given states
Entries(r, states) == { i \in DOMAIN trace[r] : trace[r][i].state \in states }

\* an invocation is named by its place in the trace
CallNumber(r) == Len(trace[r]) + 1
MayInvoke(r) == Cardinality(Entries(r, LambdaStates)) < MaxCalls

\* reformulate_question: LambdaInvoke, resultPath $.queryConfig
ReformulateQuestion(r, env) ==
    /\ pc[r] = "reformulate_question"
    /\ MayInvoke(r)
    /\ \E out \in ReformulateOutputs(ctx[r], env) :
         /\ Output(r, WithQueryConfig(ctx[r], out))
         /\ Enter(r, pc[r], <<out.semantic_layer_strategy>>)
    /\ Goto(r, AfterReformulate)
    /\ UNCHANGED <<wait, nextToken, feedbackQ, outputQ, resumed>>
    /\ UNCHANGED ctorVars

\* is_feedback_req_on_reformualted_question?: Choice with inputPath
IsFeedbackReqOnReformulatedQuestion(r) ==
    /\ pc[r] = "is_feedback_req_on_reformualted_question?"
    /\ IF ctx[r].queryConfig.present
       THEN /\ Output(r, InputPathOne(ctx[r]))
            /\ Enter(r, pc[r], <<InputPathOne(ctx[r]).semantic_layer_strategy>>)
            /\ Goto(r, FeedbackChoiceOne(InputPathOne(ctx[r])))
       ELSE /\ Goto(r, Failed)
            /\ Enter(r, pc[r], <<Absent>>)
            /\ UNCHANGED ctx
    /\ UNCHANGED <<wait, nextToken, feedbackQ, outputQ, resumed>>
    /\ UNCHANGED ctorVars

\* JsonPath.taskToken: the token of the task being entered
TaskToken(r) == Token(r, nextToken[r])

\* every token issued so far, to any task of any run
IssuedTokens ==
    UNION { { Token(q, n) : n \in 1..(nextToken[q] - 1) } : q \in DOMAIN pc }

\* variant: the message is sent and the run goes on without waiting, as with
\* IntegrationPattern.REQUEST_RESPONSE
SendAndGoOn(r, resolves, message) ==
    /\ wait[r] = NoToken
    /\ IF resolves
       THEN /\ feedbackQ' = [feedbackQ EXCEPT ![r] = Append(@, message)]
            /\ nextToken' = [nextToken EXCEPT ![r] = @ + 1]
            /\ Goto(r, IF pc[r] = "get_feedback_on_reformulated_question"
                       THEN AfterReformulatedQuestionFeedback
                       ELSE AfterGeneratedQueryFeedback)
       ELSE /\ Goto(r, Failed)
            /\ UNCHANGED <<nextToken, feedbackQ>>
    /\ Enter(r, pc[r], <<>>)
    /\ UNCHANGED <<ctx, wait, outputQ, resumed>>
    /\ UNCHANGED ctorVars

\* a gate's first half: SqsSendMessage with the task token, then wait
SendAndWait(r, resolves, message) ==
    /\ wait[r] = NoToken
    /\ IF resolves
       THEN /\ feedbackQ' = [feedbackQ EXCEPT ![r] = Append(@, message)]
            /\ wait' = [wait EXCEPT ![r] = TaskToken(r)]
            /\ nextToken' = [nextToken EXCEPT ![r] = @ + 1]
            /\ UNCHANGED pc
       ELSE /\ Goto(r, Failed)
            /\ UNCHANGED <<wait, nextToken, feedbackQ>>
    /\ Enter(r, pc[r], <<>>)
    /\ UNCHANGED <<ctx, outputQ, resumed>>
    /\ UNCHANGED ctorVars

\* get_feedback_on_reformulated_question
GetFeedbackOnReformulatedQuestion(r) ==
    /\ pc[r] = "get_feedback_on_reformulated_question"
    /\ SendAndWait(r, ReformulatedQuestionMessageResolves(ctx[r]),
                   ReformulatedQuestionMessage(ctx[r], TaskToken(r)))

\* get_feedback_on_generated_query_path_one
GetFeedbackOnGeneratedQueryPathOne(r) ==
    /\ pc[r] = "get_feedback_on_generated_query_path_one"
    /\ SendAndWait(r, GeneratedQueryMessageResolves(ctx[r]),
                   GeneratedQueryMessage(pc[r], ctx[r], TaskToken(r)))

\* get_feedback_on_generated_query_path_two
GetFeedbackOnGeneratedQueryPathTwo(r) ==
    /\ pc[r] = "get_feedback_on_generated_query_path_two"
    /\ SendAndWait(r, GeneratedQueryMessageResolves(ctx[r]),
                   GeneratedQueryMessage(pc[r], ctx[r], TaskToken(r)))

\* the feedback states have no resultPath: the output given with the token
\* is the output of the state, it replaces the state input c
ResumeOutput(c, out) == out

\* where a gate goes on once resumed
AfterGate(state) ==
    IF state = "get_feedback_on_reformulated_question"
    THEN AfterReformulatedQuestionFeedback
    ELSE AfterGeneratedQueryFeedback

\* variant: any issued token resumes the waiting task
TokenResumesAny(r, token) == wait[r] # NoToken

\* WAIT_FOR_TASK_TOKEN: the waiting task a presented token belongs to
TokenResumes(r, token) == wait[r] = token

\* variant: a waiting gate gives up by itself and the run goes on
GateTimesOut(r, env) ==
    /\ wait[r] # NoToken
    /\ Goto(r, AfterGate(pc[r]))
    /\ wait' = [wait EXCEPT ![r] = NoToken]
    /\ UNCHANGED <<ctx, nextToken, feedbackQ, outputQ, trace, resumed>>
    /\ UNCHANGED ctorVars

\* a gate's second half: SendTaskSuccess(token, output) by the reviewer; the
\* output becomes the state's output (no resultPath)
SendTaskSuccess(r, env) ==
    /\ wait[r] # NoToken
    /\ \E token \in IssuedTokens :
         /\ TokenResumes(r, token)
         /\ resumed' = [resumed EXCEPT ![r] =
                Append(@, [state |-> pc[r], issued |-> wait[r],
                           presented |-> token])]
    /\ \E out \in ReviewerOutputs(ctx[r], r, env) :
         Output(r, ResumeOutput(ctx[r], out))
    /\ Goto(r, AfterGate(pc[r]))
    /\ wait' = [wait EXCEPT ![r] = NoToken]
    /\ UNCHANGED <<nextToken, feedbackQ, outputQ, trace>>
    /\ UNCHANGED ctorVars

\* generate_query_path_one / _path_two / generate_alternate_query:
\* LambdaInvoke of the query generator, resultPath $.queryConfig
GenerateQuery(r, state, next, env) ==
    /\ pc[r] = state
    /\ MayInvoke(r)
    /\ \E out \in GenerateOutputs(CallNumber(r), env) :
         /\ Output(r, WithQueryConfig(ctx[r], out))
         /\ Enter(r, state, <<out.sql_validation_strategy, out.execute_sql_strategy>>)
    /\ Goto(r, next)
    /\ UNCHANGED <<wait, nextToken, feedbackQ, outputQ, resumed>>
    /\ UNCHANGED ctorVars

GenerateQueryPathOne(r, env) ==
    GenerateQuery(r, "generate_query_path_one", AfterGenerateOne, env)

GenerateQueryPathTwo(r, env) ==
    GenerateQuery(r, "generate_query_path_two", AfterGenerateTwo, env)

GenerateAlternateQuery(r, env) ==
    GenerateQuery(r, "generate_alternate_query", AfterAlternate, env)

\* a Choice state without inputPath, on the value of one field
ChoiceState(r, state, value, next) ==
    /\ pc[r] = state
    /\ Goto(r, next)
    /\ Enter(r, state, <<value>>)
    /\ UNCHANGED <<ctx, wait, nextToken, feedbackQ, outputQ, resumed>>
    /\ UNCHANGED ctorVars

IsFeedbackReqOnGeneratedQueryPathOne(r) ==
    ChoiceState(r, "is_feedback_req_on_generated_query_path_one?",
                ctx[r].queryConfig.Payload.sql_validation_strategy,
                FeedbackChoiceThree(ctx[r]))

IsFeedbackReqOnGeneratedQueryPathTwo(r) ==
    ChoiceState(r, "is_feedback_req_on_generated_query_path_two?",
                ctx[r].queryConfig.Payload.sql_validation_strategy,
                FeedbackChoiceTwo(ctx[r]))

IsQueryExecutionReq(r) ==
    ChoiceState(r, "is_query_execution_req?",
                ctx[r].queryConfig.Payload.execute_sql_strategy,
                ExecuteQueryChoice(ctx[r]))

IsAutocorrectRequired(r) ==
    ChoiceState(r, "is_autocorrect_required?", ctx[r].queryStatus.status,
                AutocorrectChoice(ctx[r]))

IsCountReachedState(r) ==
    ChoiceState(r, "is_count_reached", ContinueField(ctx[r]),
                IsCountReached(ctx[r]))

\* execute_query: LambdaInvoke of the query executor, resultPath $.queryStatus
ExecuteQuery(r, env) ==
    /\ pc[r] = "execute_query"
    /\ MayInvoke(r)
    /\ \E out \in ExecuteOutputs(CallNumber(r), env) :
         /\ Output(r, WithQueryStatus(ctx[r], out))
         /\ Enter(r, pc[r], <<out.status>>)
    /\ Goto(r, AfterExecute)
    /\ UNCHANGED <<wait, nextToken, feedbackQ, outputQ, resumed>>
    /\ UNCHANGED ctorVars

\* configure_count: Pass, resultPath $.iterator
ConfigureCount(r) ==
    /\ pc[r] = "configure_count"
    /\ Output(r, WithIterator(ctx[r], ConfigureCountResult))
    /\ Enter(r, pc[r], <<>>)
    /\ Goto(r, AfterConfigureCount)
    /\ UNCHANGED <<wait, nextToken, feedbackQ, outputQ, resumed>>
    /\ UNCHANGED ctorVars

\* iterator: LambdaInvoke of the autocorrect function, resultPath $.iterator
Iterator(r, env) ==
    /\ pc[r] = "iterator"
    /\ MayInvoke(r)
    /\ IF ctx[r].iterator.shape = "none"
       THEN /\ Goto(r, Failed)
            /\ Enter(r, pc[r], <<>>)
            /\ UNCHANGED ctx
       ELSE /\ \E stop \in env.stop :
                 LET out == IterateOutput(ctx[r].iterator, stop)
                 IN  /\ Output(r, WithIterator(ctx[r], out))
                     /\ Enter(r, pc[r], <<out.continue>>)
            /\ Goto(r, AfterIterator)
    /\ UNCHANGED <<wait, nextToken, feedbackQ, outputQ, resumed>>
    /\ UNCHANGED ctorVars

\* publish_query_result: SqsSendMessage to the output queue, then the run ends
PublishQueryResult(r) ==
    /\ pc[r] = "publish_query_result"
    /\ IF PublishMessageResolves(ctx[r])
       THEN /\ outputQ' = [outputQ EXCEPT ![r] = Append(@, PublishMessage(ctx[r]))]
            /\ Goto(r, Succeeded)
       ELSE /\ Goto(r, Failed)
            /\ UNCHANGED outputQ
    /\ Enter(r, pc[r], <<>>)
    /\ UNCHANGED <<ctx, wait, nextToken, feedbackQ, resumed>>
    /\ UNCHANGED ctorVars

\* StopExecution: a run in flight is stopped from outside (spec.md 5)
StopExecution(r) ==
    /\ pc[r] \notin EndStatus
    /\ Goto(r, Aborted)
    /\ wait' = [wait EXCEPT ![r] = NoToken]
    /\ UNCHANGED <<ctx, nextToken, feedbackQ, outputQ, trace, resumed>>
    /\ UNCHANGED ctorVars

----------------------------------------------------------------------------
(* The constructor (index.ts 270-916) *)

\* enum DbName, enum DatabaseType
MYSQL == "MySQL"
POSTGRESQL == "PostgreSQL"
AURORA == "Aurora"
RDS == "RDS"
Undefined == "undefined"

\* TextToSqlProps: an optional property is TRUE when it is given
TextToSqlProps ==
    [vpcProps : BOOLEAN, existingVpc : BOOLEAN, existingSubnetGroup : BOOLEAN,
     existingLambdaSecurityGroup : BOOLEAN, existingDBSecurityGroup : BOOLEAN,
     dbName : {MYSQL, POSTGRESQL},
     databaseType : {Undefined, AURORA, RDS},
     existingAuroraDbCluster : BOOLEAN, databaseClusterProps : BOOLEAN,
     databaseInstanceProps : BOOLEAN, existingRdsDbInstance : BOOLEAN,
     existingconfigAssetsBucketObj : BOOLEAN, configAssetsBucketProps : BOOLEAN]

\* the fields of the class, before the constructor assigns them
NoFields ==
    [vpc |-> Undefined, subnetGroup |-> Undefined,
     lambdaSecurityGroup |-> Undefined, dbSecurityGroup |-> Undefined,
     databaseCluster |-> Undefined, dbInstance |-> Undefined,
     secret |-> Undefined, configAssetBucket |-> Undefined]

\* variant: validateDbProps without its third check
validateDbPropsTwoChecks(p) ==
    IF p.existingAuroraDbCluster /\ p.databaseClusterProps
    THEN "Only one of existingAuroraDbCluster or databaseClusterProps can be set at a time."
    ELSE IF p.databaseInstanceProps /\ p.existingRdsDbInstance
    THEN "Only one of databaseInstanceProps or existingRdsDbInstance can be set at a time."
    ELSE ""

\* validateDbProps: the message of the error it throws, "" if it returns
validateDbProps(p) ==
    IF p.existingAuroraDbCluster /\ p.databaseClusterProps
    THEN "Only one of existingAuroraDbCluster or databaseClusterProps can be set at a time."
    ELSE IF p.databaseInstanceProps /\ p.existingRdsDbInstance
    THEN "Only one of databaseInstanceProps or existingRdsDbInstance can be set at a time."
    ELSE IF p.existingAuroraDbCluster /\ p.existingRdsDbInstance
    THEN "Only one of existingAuroraDbCluster or existingRdsDbInstance can be set at a time."
    ELSE ""

\* createRdsInstance / createAuroraCluster: switch (props.dbName)
createRdsInstance(p) ==
    IF p.dbName = MYSQL
    THEN [construct |-> "MysqlRdsInstance", error |-> ""]
    ELSE [construct |-> "", error |-> "Invalid database name"]

\* variant: createAuroraCluster without the default case of its switch
createAuroraClusterAnyName(p) ==
    [construct |-> "AuroraCluster", error |-> ""]

createAuroraCluster(p) ==
    IF p.dbName = MYSQL
    THEN [construct |-> "AuroraCluster", error |-> ""]
    ELSE [construct |-> "", error |-> "Invalid database name"]

\* a step of the constructor that returns: the constructs it instantiates,
\* the fields it assigns, the block it goes on to
Continue(next, constructs, fields) ==
    /\ cpc' = next
    /\ created' = created \cup constructs
    /\ this' = fields
    /\ UNCHANGED <<props, error>>
    /\ UNCHANGED wfVars

\* a step of the constructor that throws: the constructs it had instantiated
Throw(message, constructs) ==
    /\ cpc' = "threw"
    /\ error' = message
    /\ created' = created \cup constructs
    /\ UNCHANGED <<props, this>>
    /\ UNCHANGED wfVars

\* line 280: this.validateDbProps(props)
ValidateDbProps ==
    /\ cpc = "validateDbProps"
    /\ IF validateDbProps(props) = ""
       THEN Continue("vpc", {}, this)
       ELSE Throw(validateDbProps(props), {})

\* lines 284-296: the vpc and the subnet group
VpcChoice(p) ==
    IF p.existingVpc /\ p.existingSubnetGroup
    THEN [constructs |-> {}, vpc |-> "props.existingVpc",
          subnetGroup |-> "props.existingSubnetGroup"]
    ELSE [constructs |-> {"Vpc", "SubnetGroup"}, vpc |-> "Vpc",
          subnetGroup |-> "SubnetGroup"]

Vpc ==
    /\ cpc = "vpc"
    /\ Continue("securityGroups", VpcChoice(props).constructs,
                [this EXCEPT !.vpc = VpcChoice(props).vpc,
                             !.subnetGroup = VpcChoice(props).subnetGroup])

\* lines 301-322: the security groups
SecurityGroups ==
    /\ cpc = "securityGroups"
    /\ Continue("flowLog",
                (IF props.existingLambdaSecurityGroup THEN {}
                 ELSE {"lambdaSecurityGroup"})
                \cup (IF props.existingDBSecurityGroup THEN {}
                      ELSE {"DBSecurityGroup"}),
                [this EXCEPT
                   !.lambdaSecurityGroup =
                       IF props.existingLambdaSecurityGroup
                       THEN "props.existingLambdaSecurityGroup"
                       ELSE "lambdaSecurityGroup",
                   !.dbSecurityGroup =
                       IF props.existingDBSecurityGroup
                       THEN "props.existingDBSecurityGroup"
                       ELSE "DBSecurityGroup"])

\* lines 324-337: the vpc flow log
FlowLog ==
    /\ cpc = "flowLog"
    /\ Continue("database",
                {"textToSqlConstructVPCGroup", "textToSqlConstructRole", "FlowLog"},
                this)

\* lines 340-359: assign existing db or db props
Database ==
    /\ cpc = "database"
    /\ IF props.existingAuroraDbCluster
       THEN Continue("bucket", {},
                     [this EXCEPT !.databaseCluster = "props.existingAuroraDbCluster"])
       ELSE IF props.databaseClusterProps
       THEN Continue("bucket", {"AuroraCluster+stage"},
                     [this EXCEPT !.databaseCluster = "AuroraCluster+stage"])
       ELSE IF props.existingRdsDbInstance
       THEN Continue("bucket", {},
                     [this EXCEPT !.dbInstance = "props.existingRdsDbInstance"])
       ELSE IF props.databaseInstanceProps
       THEN Continue("bucket", {"AuroraInstance+stage"},
                     [this EXCEPT !.dbInstance = "AuroraInstance+stage"])
       ELSE IF props.databaseType = RDS
       THEN IF createRdsInstance(props).error = ""
            THEN Continue("bucket",
                          {"AuroraSecret+stage", createRdsInstance(props).construct},
                          [this EXCEPT !.secret = "AuroraSecret+stage",
                                       !.dbInstance = createRdsInstance(props).construct])
            ELSE Throw(createRdsInstance(props).error, {"AuroraSecret+stage"})
       ELSE IF createAuroraCluster(props).error = ""
            THEN Continue("bucket",
                          {"AuroraSecret+stage", createAuroraCluster(props).construct},
                          [this EXCEPT !.secret = "AuroraSecret+stage",
                                       !.databaseCluster =
                                           createAuroraCluster(props).construct])
            ELSE Throw(createAuroraCluster(props).error, {"AuroraSecret+stage"})

\* lines 366-381: the bucket of the config files
Bucket ==
    /\ cpc = "bucket"
    /\ IF props.existingconfigAssetsBucketObj
       THEN Continue("role", {},
                     [this EXCEPT !.configAssetBucket =
                                      "props.existingconfigAssetsBucketObj"])
       ELSE IF props.configAssetsBucketProps
       THEN Continue("role", {"resourceFactory", "configBucket"},
                     [this EXCEPT !.configAssetBucket = "configBucket"])
       ELSE Continue("role", {"resourceFactory", "configBucket"},
                     [this EXCEPT !.configAssetBucket = "configBucket"])

\* lines 383-463: the role of the functions
FunctionRole ==
    /\ cpc = "role"
    /\ Continue("reformulateQuestionFunction", {"queryConfigFunctionRole"}, this)

\* lines 465-504
ReformulateQuestionFunction ==
    /\ cpc = "reformulateQuestionFunction"
    /\ Continue("queryGeneratorFunction", {"reformulateQuestionFunction+stage"}, this)

\* this.secret.secretArn, this.secret.grantRead(...): a property of undefined
\* cannot be read
SecretReadable(fields) == fields.secret # Undefined

\* lines 506-544: SECRET_ARN: this.secret.secretArn
QueryGeneratorFunction ==
    /\ cpc = "queryGeneratorFunction"
    /\ IF SecretReadable(this)
       THEN Continue("queryExecutorFunction", {"queryGeneratorFunction+stage"}, this)
       ELSE Throw("TypeError: Cannot read properties of undefined", {})

\* lines 546-584: SECRET_ARN: this.secret.secretArn
QueryExecutorFunction ==
    /\ cpc = "queryExecutorFunction"
    /\ IF SecretReadable(this)
       THEN Continue("autocorrectQueryFunction",
                     {"queryExecutorFunctionName+stage"}, this)
       ELSE Throw("TypeError: Cannot read properties of undefined", {})

\* lines 586-617
AutocorrectQueryFunction ==
    /\ cpc = "autocorrectQueryFunction"
    /\ Continue("queues", {"autocorrectQueryFunction+stage"}, this)

\* lines 619-639: the feedback queue and the output queue
Queues ==
    /\ cpc = "queues"
    /\ Continue("grantRead", {"userFeedbackQueue", "outputQueue"}, this)

\* lines 642-643: this.secret.grantRead(...)
GrantRead ==
    /\ cpc = "grantRead"
    /\ IF SecretReadable(this)
       THEN Continue("stateMachine", {}, this)
       ELSE Throw("TypeError: Cannot read properties of undefined", {})

\* lines 645-915: the states and the EventbridgeToStepfunctions construct
StateMachine ==
    /\ cpc = "stateMachine"
    /\ Continue("done", {"test-eventbridge-stepfunctions-stack"}, this)

----------------------------------------------------------------------------
(* Specifications of the state machine *)

\* the constructor has completed: the state machine is deployed
DefaultProps ==
    [vpcProps |-> FALSE, existingVpc |-> FALSE, existingSubnetGroup |-> FALSE,
     existingLambdaSecurityGroup |-> FALSE, existingDBSecurityGroup |-> FALSE,
     dbName |-> MYSQL, databaseType |-> Undefined,
     existingAuroraDbCluster |-> FALSE, databaseClusterProps |-> FALSE,
     databaseInstanceProps |-> FALSE, existingRdsDbInstance |-> FALSE,
     existingconfigAssetsBucketObj |-> FALSE, configAssetsBucketProps |-> FALSE]

\* what the constructor leaves when called with DefaultProps
DeployedConstructs ==
    {"Vpc", "SubnetGroup", "lambdaSecurityGroup", "DBSecurityGroup",
     "textToSqlConstructVPCGroup", "textToSqlConstructRole", "FlowLog",
     "AuroraSecret+stage", "AuroraCluster", "resourceFactory", "configBucket",
     "queryConfigFunctionRole", "reformulateQuestionFunction+stage",
     "queryGeneratorFunction+stage", "queryExecutorFunctionName+stage",
     "autocorrectQueryFunction+stage", "userFeedbackQueue", "outputQueue",
     "test-eventbridge-stepfunctions-stack"}

DeployedFields ==
    [vpc |-> "Vpc", subnetGroup |-> "SubnetGroup",
     lambdaSecurityGroup |-> "lambdaSecurityGroup",
     dbSecurityGroup |-> "DBSecurityGroup",
     databaseCluster |-> "AuroraCluster", dbInstance |-> Undefined,
     secret |-> "AuroraSecret+stage", configAssetBucket |-> "configBucket"]

Deployed ==
    /\ cpc = "done"
    /\ props = DefaultProps
    /\ created = DeployedConstructs
    /\ this = DeployedFields
    /\ error = ""

StartRuns(runs, env) ==
    /\ pc = [r \in runs |-> StartAt]
    /\ \E sls \in env.seeded : ctx = [r \in runs |-> InitialContext(r, sls)]
    /\ wait = [r \in runs |-> NoToken]
    /\ nextToken = [r \in runs |-> 1]
    /\ feedbackQ = [r \in runs |-> <<>>]
    /\ outputQ = [r \in runs |-> <<>>]
    /\ trace = [r \in runs |-> <<>>]
    /\ resumed = [r \in runs |-> <<>>]

\* one run, every input
Init == StartRuns({1}, WideEnv) /\ Deployed
Next ==
    \/ \E r \in DOMAIN pc : ReformulateQuestion(r, WideEnv)
    \/ \E r \in DOMAIN pc : IsFeedbackReqOnReformulatedQuestion(r)
    \/ \E r \in DOMAIN pc : GetFeedbackOnReformulatedQuestion(r)
    \/ \E r \in DOMAIN pc : GetFeedbackOnGeneratedQueryPathOne(r)
    \/ \E r \in DOMAIN pc : GetFeedbackOnGeneratedQueryPathTwo(r)
    \/ \E r \in DOMAIN pc : SendTaskSuccess(r, WideEnv)
    \/ \E r \in DOMAIN pc : GenerateQueryPathOne(r, WideEnv)
    \/ \E r \in DOMAIN pc : GenerateQueryPathTwo(r, WideEnv)
    \/ \E r \in DOMAIN pc : GenerateAlternateQuery(r, WideEnv)
    \/ \E r \in DOMAIN pc : IsFeedbackReqOnGeneratedQueryPathOne(r)
    \/ \E r \in DOMAIN pc : IsFeedbackReqOnGeneratedQueryPathTwo(r)
    \/ \E r \in DOMAIN pc : IsQueryExecutionReq(r)
    \/ \E r \in DOMAIN pc : IsAutocorrectRequired(r)
    \/ \E r \in DOMAIN pc : IsCountReachedState(r)
    \/ \E r \in DOMAIN pc : ExecuteQuery(r, WideEnv)
    \/ \E r \in DOMAIN pc : ConfigureCount(r)
    \/ \E r \in DOMAIN pc : Iterator(r, WideEnv)
    \/ \E r \in DOMAIN pc : PublishQueryResult(r)
    \/ \E r \in DOMAIN pc : StopExecution(r)
Spec == Init /\ [][Next]_vars

\* one run that nobody stops: every task returns and every waiting gate is
\* eventually resumed
NextLive ==
    \/ \E r \in DOMAIN pc : ReformulateQuestion(r, WideEnv)
    \/ \E r \in DOMAIN pc : IsFeedbackReqOnReformulatedQuestion(r)
    \/ \E r \in DOMAIN pc : GetFeedbackOnReformulatedQuestion(r)
    \/ \E r \in DOMAIN pc : GetFeedbackOnGeneratedQueryPathOne(r)
    \/ \E r \in DOMAIN pc : GetFeedbackOnGeneratedQueryPathTwo(r)
    \/ \E r \in DOMAIN pc : SendTaskSuccess(r, WideEnv)
    \/ \E r \in DOMAIN pc : GenerateQueryPathOne(r, WideEnv)
    \/ \E r \in DOMAIN pc : GenerateQueryPathTwo(r, WideEnv)
    \/ \E r \in DOMAIN pc : GenerateAlternateQuery(r, WideEnv)
    \/ \E r \in DOMAIN pc : IsFeedbackReqOnGeneratedQueryPathOne(r)
    \/ \E r \in DOMAIN pc : IsFeedbackReqOnGeneratedQueryPathTwo(r)
    \/ \E r \in DOMAIN pc : IsQueryExecutionReq(r)
    \/ \E r \in DOMAIN pc : IsAutocorrectRequired(r)
    \/ \E r \in DOMAIN pc : IsCountReachedState(r)
    \/ \E r \in DOMAIN pc : ExecuteQuery(r, WideEnv)
    \/ \E r \in DOMAIN pc : ConfigureCount(r)
    \/ \E r \in DOMAIN pc : Iterator(r, WideEnv)
    \/ \E r \in DOMAIN pc : PublishQueryResult(r)
SpecLive == Init /\ [][NextLive]_vars /\ WF_vars(NextLive)

\* MaxRuns runs at once, the inputs that decide the path only
InitConcurrent == StartRuns(1..MaxRuns, NarrowEnv) /\ Deployed
NextConcurrent ==
    \/ \E r \in DOMAIN pc : ReformulateQuestion(r, NarrowEnv)
    \/ \E r \in DOMAIN pc : IsFeedbackReqOnReformulatedQuestion(r)
    \/ \E r \in DOMAIN pc : GetFeedbackOnReformulatedQuestion(r)
    \/ \E r \in DOMAIN pc : GetFeedbackOnGeneratedQueryPathOne(r)
    \/ \E r \in DOMAIN pc : GetFeedbackOnGeneratedQueryPathTwo(r)
    \/ \E r \in DOMAIN pc : SendTaskSuccess(r, NarrowEnv)
    \/ \E r \in DOMAIN pc : GenerateQueryPathOne(r, NarrowEnv)
    \/ \E r \in DOMAIN pc : GenerateQueryPathTwo(r, NarrowEnv)
    \/ \E r \in DOMAIN pc : GenerateAlternateQuery(r, NarrowEnv)
    \/ \E r \in DOMAIN pc : IsFeedbackReqOnGeneratedQueryPathOne(r)
    \/ \E r \in DOMAIN pc : IsFeedbackReqOnGeneratedQueryPathTwo(r)
    \/ \E r \in DOMAIN pc : IsQueryExecutionReq(r)
    \/ \E r \in DOMAIN pc : IsAutocorrectRequired(r)
    \/ \E r \in DOMAIN pc : IsCountReachedState(r)
    \/ \E r \in DOMAIN pc : ExecuteQuery(r, NarrowEnv)
    \/ \E r \in DOMAIN pc : ConfigureCount(r)
    \/ \E r \in DOMAIN pc : Iterator(r, NarrowEnv)
    \/ \E r \in DOMAIN pc : PublishQueryResult(r)
    \/ \E r \in DOMAIN pc : StopExecution(r)
SpecConcurrent == InitConcurrent /\ [][NextConcurrent]_vars

----------------------------------------------------------------------------
(* Specification of the constructor *)

\* no run exists while the construct is being built
NoRuns ==
    /\ pc = <<>>
    /\ ctx = <<>>
    /\ wait = <<>>
    /\ nextToken = <<>>
    /\ feedbackQ = <<>>
    /\ outputQ = <<>>
    /\ trace = <<>>
    /\ resumed = <<>>

\* new TextToSql(scope, id, props), for every props
InitConstructor ==
    /\ cpc = "validateDbProps"
    /\ props \in TextToSqlProps
    /\ created = {}
    /\ this = NoFields
    /\ error = ""
    /\ NoRuns

NextConstructor ==
    \/ ValidateDbProps
    \/ Vpc
    \/ SecurityGroups
    \/ FlowLog
    \/ Database
    \/ Bucket
    \/ FunctionRole
    \/ ReformulateQuestionFunction
    \/ QueryGeneratorFunction
    \/ QueryExecutorFunction
    \/ AutocorrectQueryFunction
    \/ Queues
    \/ GrantRead
    \/ StateMachine

SpecConstructor == InitConstructor /\ [][NextConstructor]_vars

----------------------------------------------------------------------------
(* Properties of the state machine *)

Runs == DOMAIN pc

GenerateStates ==
    {"generate_query_path_one", "generate_query_path_two",
     "generate_alternate_query"}

GateStates ==
    {"get_feedback_on_reformulated_question",
     "get_feedback_on_generated_query_path_one",
     "get_feedback_on_generated_query_path_two"}

Range(q) == { q[i] : i \in DOMAIN q }

\* how many times the run has entered one of the states
Times(r, states) == Cardinality(Entries(r, states))

\* what the run's entries in the states read or returned, in order
Values(r, states) ==
    { trace[r][i].values : i \in Entries(r, states) }

\* the run has ended by itself (it was not stopped from outside)
Ended(r) == pc[r] \in {Succeeded, Failed}

\* the GenerateQuery invocations made after an ExecuteQuery returned QUERY_ERROR
GenerateAfterError(r) ==
    { i \in Entries(r, GenerateStates) :
        \E j \in Entries(r, {"execute_query"}) :
            j < i /\ trace[r][j].values = <<"QUERY_ERROR">> }

\* C1: when the value the first branch point reads is not "human" (absent
\* included), the run never enters get_feedback_on_reformulated_question and
\* sends no reformulation-review message to the feedback queue.
C1_GateOneOnlyWhenHuman ==
    \A r \in Runs :
        (\E v \in Values(r, {"is_feedback_req_on_reformualted_question?"}) :
            v # <<"human">>)
        => /\ pc[r] # "get_feedback_on_reformulated_question"
           /\ Times(r, {"get_feedback_on_reformulated_question"}) = 0
           /\ \A m \in Range(feedbackQ[r]) :
                  m.state # "get_feedback_on_reformulated_question"

\* a run that read "automatic", passed the path-two gate and published
C1_Witness ==
    \E r \in Runs :
        /\ Values(r, {"is_feedback_req_on_reformualted_question?"}) = {<<"automatic">>}
        /\ Len(feedbackQ[r]) = 1
        /\ pc[r] = Succeeded

\* C2: in a run that enters the autocorrect loop, at most count (3)
\* GenerateQuery invocations follow the first QUERY_ERROR, and the index of
\* the iterator never exceeds its count.
C2_LoopBounded ==
    \A r \in Runs :
        /\ Cardinality(GenerateAfterError(r)) <= ConfiguredCount
        /\ ctx[r].iterator.index <= ctx[r].iterator.count

\* a run that went round the loop until the index reached the count
C2_Witness ==
    \E r \in Runs :
        /\ pc[r] = Succeeded
        /\ Cardinality(GenerateAfterError(r)) = 2
        /\ ctx[r].iterator.shape = "payload"
        /\ ctx[r].iterator.index = ctx[r].iterator.count

\* scenario C: no gate, execution enabled, the first ExecuteQuery returns
\* QUERY_ERROR and any later one SUCCESS, Iterate returns continue = true,
\* then continue = false
ScenarioC(r) ==
    /\ Times(r, GateStates) = 0
    /\ Values(r, {"is_query_execution_req?"}) = {<<"enabled">>}
    /\ \A i \in Entries(r, {"execute_query"}) :
          trace[r][i].values =
              IF \E j \in Entries(r, {"execute_query"}) : j < i
              THEN <<"SUCCESS">> ELSE <<"QUERY_ERROR">>
    /\ \E i, j \in Entries(r, {"iterator"}) :
          /\ i < j
          /\ Entries(r, {"iterator"}) = {i, j}
          /\ trace[r][i].values = <<"true">>
          /\ trace[r][j].values = <<"false">>

\* C3: a run of scenario C makes exactly 2 GenerateQuery, 2 ExecuteQuery and
\* 2 Iterate invocations and sends one Publish message.
C3_ScenarioC ==
    \A r \in Runs :
        (pc[r] = Succeeded /\ ScenarioC(r))
        => /\ Times(r, GenerateStates) = 2
           /\ Times(r, {"execute_query"}) = 2
           /\ Times(r, {"iterator"}) = 2
           /\ Len(outputQ[r]) = 1

\* scenario A: the first branch point reads "automatic", GenerateQuery
\* returns sql_validation_strategy "automatic" and execute_sql_strategy
\* "enabled", ExecuteQuery returns SUCCESS
ScenarioA(r) ==
    /\ Values(r, {"reformulate_question"}) = {<<"automatic">>}
    /\ Values(r, GenerateStates) = {<<"automatic", "enabled">>}
    /\ Values(r, {"execute_query"}) \subseteq {<<"SUCCESS">>}

\* C4: a run of scenario A ends having made one GenerateQuery and one
\* ExecuteQuery invocation, entered no gate, made no Iterate invocation, and
\* sent one Publish message, whose result is what that ExecuteQuery returned.
C4_ScenarioA ==
    \A r \in Runs :
        (Ended(r) /\ ScenarioA(r))
        => /\ pc[r] = Succeeded
           /\ Times(r, GenerateStates) = 1
           /\ Times(r, GateStates) = 0
           /\ Times(r, {"execute_query"}) = 1
           /\ Times(r, {"iterator"}) = 0
           /\ Len(outputQ[r]) = 1
           /\ \A i \in Entries(r, {"execute_query"}) :
                  outputQ[r][1].result.value = Value("call", i)

C4_Witness ==
    \E r \in Runs :
        /\ pc[r] = Succeeded
        /\ ScenarioA(r)
        /\ Len(outputQ[r]) = 1

\* scenario B: as scenario A, with execute_sql_strategy "disabled"
ScenarioB(r) ==
    /\ Values(r, {"reformulate_question"}) = {<<"automatic">>}
    /\ Values(r, GenerateStates) = {<<"automatic", "disabled">>}

\* C5: a run of scenario B never invokes ExecuteQuery, goes from the
\* execute-gate straight to Publish, and sends a Publish message although no
\* queryStatus.Payload.result was written.
C5_ScenarioB ==
    \A r \in Runs :
        (Ended(r) /\ ScenarioB(r))
        => /\ Times(r, {"execute_query"}) = 0
           /\ \A i \in Entries(r, {"is_query_execution_req?"}) :
                  trace[r][i + 1].state = "publish_query_result"
           /\ pc[r] = Succeeded
           /\ Len(outputQ[r]) = 1

\* the resumes made so far: which run, which position in its log
Resumes == UNION { { <<r, i>> : i \in DOMAIN resumed[r] } : r \in Runs }

JustGenerated(r) ==
    /\ Len(trace[r]) > 0
    /\ trace[r][Len(trace[r])].state \in GenerateStates

\* the output of the n-th call of the run, a GenerateQuery that returned values
OutputOf(n, values) ==
    [NoPayload EXCEPT !.validated_sql_query = Value("call", n),
                      !.sql_validation_strategy = values[1],
                      !.execute_sql_strategy = values[2]]

\* C7 as stated: once a run has invoked GenerateQuery, $.queryConfig.Payload
\* is in every state the output of its most recent GenerateQuery invocation.
C7_AlwaysMostRecentGenerate ==
    \A r \in Runs :
        \A i \in Entries(r, GenerateStates) :
            (\A j \in Entries(r, GenerateStates) : j <= i)
            => /\ ctx[r].queryConfig.present
               /\ ctx[r].queryConfig.Payload = OutputOf(i, trace[r][i].values)

\* C7: immediately after any GenerateQuery call $.queryConfig.Payload holds
\* that call's output and nothing else, and the validated_sql_query of an
\* earlier call never reappears once a later call has overwritten it.
C7_GenerateOverwrites ==
    \A r \in Runs :
        /\ JustGenerated(r)
           => /\ ctx[r].queryConfig.present
              /\ ctx[r].queryConfig.Payload =
                     OutputOf(Len(trace[r]), trace[r][Len(trace[r])].values)
              /\ ctx[r].queryConfig.Payload \in GenerateOutputs(Len(trace[r]), WideEnv)
        /\ \A i, j \in Entries(r, GenerateStates) :
              i < j => ctx[r].queryConfig.Payload.validated_sql_query # Value("call", i)

\* a run just after its second alternate query
C7_Witness ==
    \E r \in Runs :
        /\ JustGenerated(r)
        /\ Times(r, GenerateStates) = 3
        /\ ctx[r].queryConfig.Payload.validated_sql_query = Value("call", Len(trace[r]))

----------------------------------------------------------------------------
(* Properties of the constructor *)

Validating == {"validateDbProps", "threw"}

BeforeTheBucket ==
    {"validateDbProps", "vpc", "securityGroups", "flowLog", "database", "threw"}

OnlyOneMessages ==
    {"Only one of existingAuroraDbCluster or databaseClusterProps can be set at a time.",
     "Only one of databaseInstanceProps or existingRdsDbInstance can be set at a time.",
     "Only one of existingAuroraDbCluster or existingRdsDbInstance can be set at a time."}

\* the pairs validateDbProps looks at
CheckedPairs(p) ==
    \/ p.existingAuroraDbCluster /\ p.databaseClusterProps
    \/ p.existingRdsDbInstance /\ p.databaseInstanceProps
    \/ p.existingAuroraDbCluster /\ p.existingRdsDbInstance

\* the pairs of C8: the third is any cluster option with any instance option
ExclusivePairs(p) ==
    \/ p.existingAuroraDbCluster /\ p.databaseClusterProps
    \/ p.existingRdsDbInstance /\ p.databaseInstanceProps
    \/ /\ p.existingAuroraDbCluster \/ p.databaseClusterProps
       /\ p.existingRdsDbInstance \/ p.databaseInstanceProps

\* no database option is given: the construct creates the database itself
DefaultDatabase(p) ==
    /\ ~p.existingAuroraDbCluster
    /\ ~p.databaseClusterProps
    /\ ~p.existingRdsDbInstance
    /\ ~p.databaseInstanceProps

\* C8 as stated: with any cluster option given together with any instance
\* option (or one of the two documented pairs), construction never gets past
\* validateDbProps and no construct is instantiated.
C8_EveryPairRejected ==
    ExclusivePairs(props) => cpc \in Validating /\ created = {}

\* C8: with (existingAuroraDbCluster, databaseClusterProps),
\* (existingRdsDbInstance, databaseInstanceProps) or (existingAuroraDbCluster,
\* existingRdsDbInstance) given together, validateDbProps throws its "Only
\* one of ..." error before any construct is instantiated; no other
\* combination is rejected by it.
C8_CheckedPairsRejected ==
    /\ CheckedPairs(props)
       => /\ cpc \in Validating
          /\ created = {}
          /\ cpc = "threw" => error \in OnlyOneMessages
    /\ error \in OnlyOneMessages => CheckedPairs(props)

\* the existing cluster and the existing instance given together: rejected
C8_Witness ==
    /\ props.existingAuroraDbCluster
    /\ props.existingRdsDbInstance
    /\ ~props.databaseClusterProps
    /\ ~props.databaseInstanceProps
    /\ cpc = "threw"
    /\ created = {}

\* C9 as stated: with a dbName other than MySQL, for every combination of
\* the other properties, no construct is ever instantiated and construction
\* does not complete.
C9_InvalidNameBeforeAnyResource ==
    props.dbName # MYSQL => created = {} /\ cpc # "done"

\* C9: when no database option is given, a dbName other than MySQL makes the
\* database step throw 'Invalid database name', after the vpc, the security
\* groups, the flow log and the secret were instantiated and before the
\* bucket, the functions, the queues and the state machine; when a database
\* option is given the dbName is never examined.
C9_InvalidNameInDefaultCreation ==
    /\ (props.dbName # MYSQL /\ DefaultDatabase(props))
       => /\ cpc \in BeforeTheBucket
          /\ cpc = "threw"
             => /\ error = "Invalid database name"
                /\ {"FlowLog", "AuroraSecret+stage"} \subseteq created
                /\ created \cap {"AuroraCluster", "MysqlRdsInstance"} = {}
    /\ error = "Invalid database name"
       => props.dbName # MYSQL /\ DefaultDatabase(props)

C9_Witness ==
    /\ props.dbName # MYSQL
    /\ DefaultDatabase(props)
    /\ cpc = "threw"
    /\ error = "Invalid database name"
    /\ "AuroraSecret+stage" \in created

\* C10: with both vpcProps and existingVpc given, construction is rejected:
\* it never completes.
C10_BothVpcRejected ==
    (props.vpcProps /\ props.existingVpc) => cpc # "done"

----------------------------------------------------------------------------
(* Further properties of the state machine *)

LastEntry(r) == trace[r][Len(trace[r])]

\* the run ended FAILED at a state that read a path that does not resolve:
\* a Choice on an absent field, or a message body with an absent field
FailedOnMissingField(r) ==
    /\ pc[r] = Failed
    /\ Len(trace[r]) > 0
    /\ \/ LastEntry(r).values = <<Absent>>
       \/ LastEntry(r).state \in GateStates \cup {"publish_query_result"}

C12_EveryMessageCarriesTheRunsId ==
    \A r \in Runs :
        /\ \A m \in Range(feedbackQ[r]) :
              m.question_unique_id.value = UniqueId(r)
        /\ \A m \in Range(outputQ[r]) :
              m.question_unique_id.value = UniqueId(r)

\* C13: the autocorrect loop re-executes what it regenerates: in a run that
\* has published, every generate_alternate_query invocation was followed by
\* an execute_query invocation.
C13_AlternateQueryIsExecuted ==
    \A r \in Runs :
        pc[r] = Succeeded
        => \A i \in Entries(r, {"generate_alternate_query"}) :
               \E j \in Entries(r, {"execute_query"}) : j > i

LoopStates == {"configure_count", "iterator", "generate_alternate_query"}

\* the state the run entered after its i-th, or is about to enter
StateAfter(r, i) ==
    IF Len(trace[r]) > i THEN trace[r][i + 1].state ELSE pc[r]

\* C14: configure_count, iterator and generate_alternate_query are entered
\* only after the run's latest execute_query returned status "QUERY_ERROR",
\* which $.queryStatus then holds; when is_autocorrect_required? reads any
\* other status, the next state is publish_query_result (an absent status
\* fails the run at the Choice).
C14_LoopOnlyOnQueryError ==
    \A r \in Runs :
        /\ \A i \in Entries(r, LoopStates) :
              /\ \E j \in Entries(r, {"execute_query"}) :
                    /\ j < i
                    /\ \A k \in Entries(r, {"execute_query"}) : k <= j
                    /\ trace[r][j].values = <<"QUERY_ERROR">>
              /\ ctx[r].queryStatus.present
              /\ ctx[r].queryStatus.status = "QUERY_ERROR"
        /\ \A i \in Entries(r, {"is_autocorrect_required?"}) :
              /\ trace[r][i - 1].state = "execute_query"
              /\ trace[r][i].values = trace[r][i - 1].values
              /\ trace[r][i].values \notin {<<"QUERY_ERROR">>, <<Absent>>}
                 => StateAfter(r, i) \in {"publish_query_result", Aborted}
              /\ trace[r][i].values = <<Absent>> => StateAfter(r, i) = Failed

\* a run that entered the loop after a QUERY_ERROR and published
C14_Witness ==
    \E r \in Runs :
        /\ Values(r, {"execute_query"}) = {<<"QUERY_ERROR">>}
        /\ Times(r, {"generate_alternate_query"}) > 0
        /\ pc[r] = Succeeded

\* C15: at is_query_execution_req?, when execute_sql_strategy is "disabled"
\* the next state is publish_query_result and the run never invokes
\* execute_query; for every other value the next state is execute_query (an
\* absent strategy fails the run at the Choice); and execute_query is
\* invoked only from there.
C15_ExecuteUnlessDisabled ==
    \A r \in Runs :
        /\ \A i \in Entries(r, {"is_query_execution_req?"}) :
              /\ Len(trace[r]) = i
                 => trace[r][i].values =
                        <<ctx[r].queryConfig.Payload.execute_sql_strategy>>
              /\ trace[r][i].values = <<"disabled">>
                 => /\ StateAfter(r, i) \in {"publish_query_result", Aborted}
                    /\ Times(r, {"execute_query"}) = 0
              /\ trace[r][i].values \notin {<<"disabled">>, <<Absent>>}
                 => StateAfter(r, i) \in {"execute_query", Aborted}
              /\ trace[r][i].values = <<Absent>> => StateAfter(r, i) = Failed
        /\ \A j \in Entries(r, {"execute_query"}) :
              /\ trace[r][j - 1].state = "is_query_execution_req?"
              /\ trace[r][j - 1].values \notin {<<"disabled">>, <<Absent>>}

\* a run with execution disabled that went on to publish_query_result
C15_Witness ==
    \E r \in Runs :
        /\ Values(r, {"is_query_execution_req?"}) = {<<"disabled">>}
        /\ Times(r, {"publish_query_result"}) = 1
        /\ Times(r, {"execute_query"}) = 0

\* what one of the Choices after the initial GenerateQuery did at entry i
QueryFeedbackChoice(r, i, generate, gate) ==
    /\ trace[r][i - 1].state = generate
    /\ trace[r][i].values = <<trace[r][i - 1].values[1]>>
    /\ trace[r][i].values = <<"human">> => StateAfter(r, i) \in {gate, Aborted}
    /\ trace[r][i].values \notin {<<"human">>, <<Absent>>}
       => StateAfter(r, i) \in {"is_query_execution_req?", Aborted}
    /\ trace[r][i].values = <<Absent>> => StateAfter(r, i) = Failed

\* C16: after the initial GenerateQuery a generated-query gate is entered if
\* and only if sql_validation_strategy is "human" (otherwise the run goes to
\* the execute-gate; an absent strategy fails the run at the Choice); the
\* path-one gate is entered only in runs that entered Feedback Gate 1, the
\* path-two gate only in runs that did not; a run enters at most one of the
\* two, and a resumed gate continues at the execute-gate.
C16_QueryGateOnlyWhenHuman ==
    \A r \in Runs :
        /\ \A i \in Entries(r, {"is_feedback_req_on_generated_query_path_one?"}) :
              QueryFeedbackChoice(r, i, "generate_query_path_one",
                                  "get_feedback_on_generated_query_path_one")
        /\ \A i \in Entries(r, {"is_feedback_req_on_generated_query_path_two?"}) :
              QueryFeedbackChoice(r, i, "generate_query_path_two",
                                  "get_feedback_on_generated_query_path_two")
        /\ \A i \in Entries(r, {"get_feedback_on_generated_query_path_one"}) :
              /\ trace[r][i - 1] =
                     [state |-> "is_feedback_req_on_generated_query_path_one?",
                      values |-> <<"human">>]
              /\ Times(r, {"get_feedback_on_reformulated_question"}) = 1
        /\ \A i \in Entries(r, {"get_feedback_on_generated_query_path_two"}) :
              /\ trace[r][i - 1] =
                     [state |-> "is_feedback_req_on_generated_query_path_two?",
                      values |-> <<"human">>]
              /\ Times(r, {"get_feedback_on_reformulated_question"}) = 0
        /\ Times(r, {"get_feedback_on_generated_query_path_one",
                     "get_feedback_on_generated_query_path_two"}) <= 1
        /\ \A i \in Entries(r, {"get_feedback_on_generated_query_path_one",
                                "get_feedback_on_generated_query_path_two"}) :
              StateAfter(r, i) \in
                  {trace[r][i].state, "is_query_execution_req?", Aborted, Failed}

\* a run that passed Feedback Gate 1 and the path-one gate and is at the
\* execute-gate
C16_Witness ==
    \E r \in Runs :
        /\ Times(r, {"get_feedback_on_reformulated_question"}) = 1
        /\ Times(r, {"get_feedback_on_generated_query_path_one"}) = 1
        /\ Len(resumed[r]) = 2
        /\ pc[r] = "is_query_execution_req?"

QueryGates ==
    {"get_feedback_on_generated_query_path_one",
     "get_feedback_on_generated_query_path_two"}

\* the run's initial GenerateQuery returned sql_validation_strategy "human"
HumanValidation(r) ==
    \E i \in Entries(r, {"generate_query_path_one", "generate_query_path_two"}) :
        trace[r][i].values[1] = "human"

\* a generated-query gate of the run has been resumed with the token it issued
QueryGateResumed(r) ==
    \E k \in DOMAIN resumed[r] :
        /\ resumed[r][k].state \in QueryGates
        /\ resumed[r][k].presented = resumed[r][k].issued
        /\ \E m \in Range(feedbackQ[r]) :
               m.state = resumed[r][k].state /\ m.TaskToken = resumed[r][k].issued

\* C17: in a run whose initial GenerateQuery returned sql_validation_strategy
\* "human", execute_query is neither about to be invoked nor invoked before
\* the generated-query gate has been resumed with its token; and
\* execute_query is never invoked before a GenerateQuery has completed.
C17_HumanValidationGatesExecution ==
    \A r \in Runs :
        (pc[r] = "execute_query" \/ Times(r, {"execute_query"}) > 0)
        => /\ Times(r, GenerateStates) > 0
           /\ \A j \in Entries(r, {"execute_query"}) :
                  \E i \in Entries(r, GenerateStates) : i < j
           /\ HumanValidation(r)
              => /\ QueryGateResumed(r)
                 /\ wait[r] = NoToken
                 /\ \A j \in Entries(r, {"execute_query"}) :
                        \E g \in Entries(r, QueryGates) : g < j

\* a run with human validation that executed its query after the resume
C17_Witness ==
    \E r \in Runs :
        /\ HumanValidation(r)
        /\ QueryGateResumed(r)
        /\ Times(r, {"execute_query"}) = 1

\* how the run came to its end: the query was executed with success,
\* execution was disabled, or the autocorrect loop was exhausted
TerminalOutcome(r) ==
    \/ Values(r, {"execute_query"}) = {<<"SUCCESS">>}
    \/ Values(r, {"is_query_execution_req?"}) = {<<"disabled">>}
    \/ <<"false">> \in Values(r, {"is_count_reached"})

\* C18: every terminal outcome ends at publish_query_result: a run without
\* gates that came to one of the three outcomes and ended has sent exactly
\* one message to the output queue, as the last step of the run.
C18_EveryOutcomePublishes ==
    \A r \in Runs :
        (Ended(r) /\ Times(r, GateStates) = 0 /\ TerminalOutcome(r))
        => /\ pc[r] = Succeeded
           /\ Len(outputQ[r]) = 1
           /\ DOMAIN outputQ[r][1] =
                  {"result", "user_question", "question_unique_id"}
           /\ LastEntry(r).state = "publish_query_result"
           /\ Times(r, {"publish_query_result"}) = 1

\* the ids of the states of the definition
StateNames ==
    LambdaStates \cup GateStates \cup
    {"is_feedback_req_on_reformualted_question?",
     "is_feedback_req_on_generated_query_path_one?",
     "is_feedback_req_on_generated_query_path_two?",
     "is_query_execution_req?", "is_autocorrect_required?",
     "is_count_reached", "configure_count", "publish_query_result"}

\* the feedback messages of the run whose token has not been presented yet
Unresumed(r) ==
    { m \in Range(feedbackQ[r]) :
        \A k \in DOMAIN resumed[r] : resumed[r][k].presented # m.TaskToken }

\* C19: a run is at exactly one state of the definition (or has ended); at
\* most one gate of the run awaits a token; an awaiting gate has exactly one
\* live token, the one its single message carries; a run that awaits nothing
\* has no live token.
C19_OneStepOneGateOneToken ==
    \A r \in Runs :
        /\ pc[r] \in StateNames \cup EndStatus
        /\ Cardinality(Unresumed(r)) <= 1
        /\ wait[r] # NoToken
           => /\ pc[r] \in GateStates
              /\ LastEntry(r).state = pc[r]
              /\ Cardinality(Unresumed(r)) = 1
              /\ \A m \in Unresumed(r) :
                     m.TaskToken = wait[r] /\ m.state = pc[r]
        /\ (wait[r] = NoToken /\ pc[r] # Aborted) => Unresumed(r) = {}

\* a run awaiting its second gate, the token of the first already used
C19_Witness ==
    \E r \in Runs :
        /\ wait[r] # NoToken
        /\ Len(resumed[r]) = 1
        /\ Len(feedbackQ[r]) = 2

\* the run does nothing in this step
Idle(r) ==
    /\ pc'[r] = pc[r]
    /\ ctx'[r] = ctx[r]
    /\ wait'[r] = wait[r]
    /\ nextToken'[r] = nextToken[r]
    /\ feedbackQ'[r] = feedbackQ[r]
    /\ outputQ'[r] = outputQ[r]
    /\ trace'[r] = trace[r]
    /\ resumed'[r] = resumed[r]

\* the run is cancelled from outside in this step
Cancelled(r) ==
    /\ pc'[r] = Aborted
    /\ wait'[r] = NoToken
    /\ ctx'[r] = ctx[r]
    /\ feedbackQ'[r] = feedbackQ[r]
    /\ outputQ'[r] = outputQ[r]

\* the waiting gate is resumed in this step with the token it issued, and
\* what the caller attached is the context the run goes on with
ResumedWithItsToken(r) ==
    /\ resumed'[r] = Append(resumed[r], [state |-> pc[r], issued |-> wait[r],
                                         presented |-> wait[r]])
    /\ pc'[r] = AfterGate(pc[r])
    /\ wait'[r] = NoToken
    /\ ctx'[r] \in ReviewerOutputs(ctx[r], r, WideEnv)
    /\ feedbackQ'[r] = feedbackQ[r]
    /\ outputQ'[r] = outputQ[r]
    /\ trace'[r] = trace[r]

\* C20: a gate sends one message when it starts to wait; a run that awaits a
\* token takes no step (no timeout, no retry, no second message) until it is
\* resumed with the token the gate issued, and then the data the caller
\* attached is its Execution Context, or until it is cancelled from outside.
C20_SuspendedUntilItsToken ==
    [][\A r \in Runs :
          /\ (wait[r] = NoToken /\ wait'[r] # NoToken)
             => /\ Len(feedbackQ'[r]) = Len(feedbackQ[r]) + 1
                /\ feedbackQ'[r][Len(feedbackQ'[r])].TaskToken = wait'[r]
          /\ wait[r] # NoToken
             => Idle(r) \/ Cancelled(r) \/ ResumedWithItsToken(r)]_vars

\* a run resumed with data that differs from what the gate had sent
C20_Witness ==
    \E r \in Runs :
        /\ Len(resumed[r]) = 1
        /\ wait[r] = NoToken
        /\ ctx[r].question_unique_id = UniqueId(r + 1)

\* the run enters the state in this step
Enters(r, state) ==
    /\ Len(trace'[r]) = Len(trace[r]) + 1
    /\ trace'[r][Len(trace'[r])].state = state

\* C21: the loop counter is set to count = 3, index = 0, step = 1 once per
\* run, when the run enters the loop, and never again (after
\* generate_alternate_query the run is at iterator); only configure_count and
\* iterator change $.iterator, the index never decreases, count and step
\* stay what configure_count wrote, and the loop generates no more than
\* count alternate queries.
C21_CounterInitialisedOnce ==
    [][\A r \in Runs :
          /\ Enters(r, "configure_count")
             => /\ Times(r, LoopStates) = 0
                /\ ctx'[r].iterator =
                       [shape |-> "raw", count |-> 3, index |-> 0, step |-> 1,
                        continue |-> Absent]
          /\ Enters(r, "generate_alternate_query")
             => pc'[r] \in {"iterator", Aborted}
          /\ ctx'[r].iterator # ctx[r].iterator
             => Enters(r, "configure_count") \/ Enters(r, "iterator")
          /\ ctx'[r].iterator.index >= ctx[r].iterator.index
          /\ ctx[r].iterator.shape # "none"
             => /\ ctx'[r].iterator.count = ctx[r].iterator.count
                /\ ctx'[r].iterator.step = ctx[r].iterator.step
          /\ Cardinality({ i \in DOMAIN trace'[r] :
                             trace'[r][i].state = "generate_alternate_query" })
                 <= ctx'[r].iterator.count]_vars

\* a run that configured the counter once and left the loop with index = count
C21_Witness ==
    \E r \in Runs :
        /\ Times(r, {"configure_count"}) = 1
        /\ Times(r, {"iterator"}) = 3
        /\ ctx[r].iterator.index = 3
        /\ pc[r] = "publish_query_result"

\* the field paths of the Execution Context that resolve
Present(c) ==
    { f \in {"user_question", "question_unique_id",
             "reformulated_user_question", "semantic_layer_strategy"} :
        c[f] # Absent }
    \cup (IF c.queryConfig.present THEN {"queryConfig"} ELSE {})
    \cup (IF c.queryStatus.present THEN {"queryStatus"} ELSE {})
    \cup (IF c.iterator.shape # "none" THEN {"iterator"} ELSE {})

\* C22: no field of the Execution Context is ever deleted during a run: a
\* field path that resolves before a step resolves after it, and
\* user_question keeps the value the run was started with.
C22_NoFieldDeleted ==
    [][\A r \in Runs :
          /\ Present(ctx[r]) \subseteq Present(ctx'[r])
          /\ ctx'[r].user_question = UserQuestion(r)]_vars

\* the six Choice states: the one literal each compares its one field with,
\* the state of its when(...) and the state of its otherwise(...)
ChoiceStates ==
    { [state |-> "is_feedback_req_on_reformualted_question?", literal |-> "human",
       when |-> "get_feedback_on_reformulated_question",
       otherwise |-> "generate_query_path_two"],
      [state |-> "is_feedback_req_on_generated_query_path_one?", literal |-> "human",
       when |-> "get_feedback_on_generated_query_path_one",
       otherwise |-> "is_query_execution_req?"],
      [state |-> "is_feedback_req_on_generated_query_path_two?", literal |-> "human",
       when |-> "get_feedback_on_generated_query_path_two",
       otherwise |-> "is_query_execution_req?"],
      [state |-> "is_query_execution_req?", literal |-> "disabled",
       when |-> "publish_query_result", otherwise |-> "execute_query"],
      [state |-> "is_autocorrect_required?", literal |-> "QUERY_ERROR",
       when |-> "configure_count", otherwise |-> "publish_query_result"],
      [state |-> "is_count_reached", literal |-> "true",
       when |-> "generate_alternate_query",
       otherwise |-> "publish_query_result"] }

\* C23: at each of the six branch points the run goes on to exactly one
\* successor: the state of the condition when the field read equals the
\* literal, and the otherwise state for every other content of the field,
\* an absent field included (unless the run is stopped from outside there).
C23_OtherwiseWheneverNoMatch ==
    \A r \in Runs :
        \A b \in ChoiceStates :
            \A i \in Entries(r, {b.state}) :
                StateAfter(r, i) \in
                    {IF trace[r][i].values = <<b.literal>>
                     THEN b.when ELSE b.otherwise, Aborted}

\* C24: a task changes only what is under its result path: entering
\* reformulate_question or a GenerateQuery state changes nothing of the
\* Execution Context but $.queryConfig, entering execute_query nothing but
\* $.queryStatus, entering configure_count or iterator nothing but
\* $.iterator; and the result is there afterwards.
C24_OnlyTheResultPath ==
    [][\A r \in Runs :
          /\ (\E s \in GenerateStates \cup {"reformulate_question"} : Enters(r, s))
             => /\ ctx'[r] = [ctx[r] EXCEPT !.queryConfig = ctx'[r].queryConfig]
                /\ ctx'[r].queryConfig.present
          /\ Enters(r, "execute_query")
             => /\ ctx'[r] = [ctx[r] EXCEPT !.queryStatus = ctx'[r].queryStatus]
                /\ ctx'[r].queryStatus.present
          /\ (Enters(r, "configure_count") \/ Enters(r, "iterator"))
             => /\ ctx'[r] = [ctx[r] EXCEPT !.iterator = ctx'[r].iterator]
                /\ ctx'[r].iterator.shape # "none" \/ pc'[r] = Failed]_vars

\* a run in the loop whose context holds the question it was started with
\* and the results of all three kinds of task
C24_Witness ==
    \E r \in Runs :
        /\ pc[r] = "is_count_reached"
        /\ Times(r, {"generate_alternate_query"}) = 1
        /\ ctx[r].user_question = UserQuestion(r)
        /\ ctx[r].queryConfig.present
        /\ ctx[r].queryStatus.present
        /\ ctx[r].iterator.shape = "payload"

\* the transitions of the definition: the .next(...) of each task and the
\* when(...) / otherwise(...) of each Choice
Edges ==
    { <<b.state, b.when>> : b \in ChoiceStates }
    \cup { <<b.state, b.otherwise>> : b \in ChoiceStates }
    \cup { <<"reformulate_question", AfterReformulate>>,
           <<"get_feedback_on_reformulated_question",
             AfterReformulatedQuestionFeedback>>,
           <<"generate_query_path_one", AfterGenerateOne>>,
           <<"generate_query_path_two", AfterGenerateTwo>>,
           <<"get_feedback_on_generated_query_path_one",
             AfterGeneratedQueryFeedback>>,
           <<"get_feedback_on_generated_query_path_two",
             AfterGeneratedQueryFeedback>>,
           <<"execute_query", AfterExecute>>,
           <<"configure_count", AfterConfigureCount>>,
           <<"iterator", AfterIterator>>,
           <<"generate_alternate_query", AfterAlternate>> }

Successors(states) == { e[2] : e \in { d \in Edges : d[1] \in states } }

\* the states reached from the given ones in 1 .. n transitions
RECURSIVE ReachedIn(_, _)
ReachedIn(states, n) ==
    IF n = 0 THEN {}
    ELSE Successors(states) \cup ReachedIn(Successors(states), n - 1)

\* the states that lie on a cycle of the definition
OnACycle ==
    { s \in StateNames : s \in ReachedIn({s}, Cardinality(StateNames)) }

\* the states reached from the entry point
Reachable ==
    {StartAt} \cup ReachedIn({StartAt}, Cardinality(StateNames))

\* the transitions between states that lie on a cycle
CycleEdges == { e \in Edges : e[1] \in OnACycle /\ e[2] \in OnACycle }

\* the states of the autocorrect loop's cycle
CycleStates == {"iterator", "is_count_reached", "generate_alternate_query"}

\* the states the run has entered
Entered(r) == { trace[r][i].state : i \in DOMAIN trace[r] }

\* C25: every run starts at reformulate_question and moves along the
\* transitions of the definition only; every state of the definition can be
\* reached from reformulate_question along them; and the only cycle is
\* iterator -> is_count_reached -> generate_alternate_query -> iterator.
\* That each state is in fact entered is the witness: runs that between
\* them enter all 17.
C25_SingleEntryOneCycle ==
    /\ \A r \in Runs :
          /\ IF trace[r] = <<>>
             THEN pc[r] \in {"reformulate_question", Aborted}
             ELSE trace[r][1].state = "reformulate_question"
          /\ \A i \in DOMAIN trace[r] :
                \/ <<trace[r][i].state, StateAfter(r, i)>> \in Edges
                \/ StateAfter(r, i) \in EndStatus
                \/ i = Len(trace[r]) /\ pc[r] = trace[r][i].state
                                     /\ wait[r] # NoToken
    /\ Reachable = StateNames
    /\ OnACycle = CycleStates
    /\ CycleEdges
       = { <<"iterator", "is_count_reached">>,
           <<"is_count_reached", "generate_alternate_query">>,
           <<"generate_alternate_query", "iterator">> }

\* two runs that have published and between them entered every state
C25_Witness ==
    /\ \A r \in 1..2 : pc[r] = Succeeded
    /\ UNION { Entered(r) : r \in 1..2 } = StateNames
    /\ Cardinality(StateNames) = 17

\* the blocks of the constructor that read this.secret
ReadsTheSecret == {"queryGeneratorFunction", "queryExecutorFunction", "grantRead"}

\* C26: for every props validateDbProps accepts, whichever database branch
\* was taken, this.secret is defined when the constructor comes to a block
\* that reads it, and construction does not fail on an undefined secret.
C26_SecretDefinedWhereRead ==
    /\ cpc \in ReadsTheSecret => this.secret # Undefined
    /\ error # "TypeError: Cannot read properties of undefined"

====
